---------------------------- MODULE Spec2Model ----------------------------
(***************************************************************************)
(* Model of whisper-service/main.py: the Icelandic Whisper speech-to-text  *)
(* FastAPI service.                                                        *)
(*                                                                         *)
(* State: the two module globals `processor` and `model`, the import-time  *)
(* constant DEVICE, and the coroutines living on the server's single       *)
(* asyncio event loop: `cur` is the coroutine the loop is running (or      *)
(* Idle), `waiting` the coroutines suspended at an `await`.                *)
(*                                                                         *)
(* The third-party libraries (soundfile, librosa, transformers, torch) are *)
(* deterministic functions of their input that are not in the source: a    *)
(* request carries, beside its payload, the `fault` (the library call that *)
(* raises on this input, if any) and the `text` the model transcribes it   *)
(* to.                                                                     *)
(***************************************************************************)
EXTENDS Integers, Sequences, FiniteSets, TLC

VARIABLES processor, model, cuda_available, DEVICE, started, cur, waiting

vars == <<processor, model, cuda_available, DEVICE, started, cur, waiting>>

\* Number of requests in flight at once (running or suspended).
MaxRequests == 2

None == "None"
Loaded == "loaded"
Idle == [endpoint |-> "idle"]

MODEL_NAME == "language-and-voice-lab/whisper-large-icelandic-62640-steps-967h"

\* DEVICE = "cuda" if torch.cuda.is_available() else "cpu"
\* torch.cuda.is_available() reports the host's hardware and driver, which
\* the process does not change: cuda_available has one value in a run, read
\* at import (DEVICE) and again by health_check.
DeviceFor(cuda) == IF cuda THEN "cuda" ELSE "cpu"

\* The rate the feature extractor is told and the handlers resample to.
TARGET_SR == 16000

\* audio_int16.astype(np.float32) / 32768.0
PCM_SCALE == 32768

-----------------------------------------------------------------------------
(* base64.b64decode(s) with the default validate=False, which is           *)
(* binascii.a2b_base64 in its non-strict mode: characters outside the      *)
(* alphabet are skipped, a complete pad sequence ends the parse, and the   *)
(* data characters left over in an unfinished quad are an error.           *)

\* The characters of the modelled inputs: two of the alphabet (values 0 and
\* 63), the pad, an ASCII character outside the alphabet, a non-ASCII one.
B64Table == [c \in {"A", "/"} |-> IF c = "A" THEN 0 ELSE 63]
B64_PAD == "="
AsciiChars == {"A", "/", "=", "$"}

Ok(v) == [ok |-> TRUE, val |-> v, err |-> <<>>]
Raise(type, msg) == [ok |-> FALSE, val |-> <<>>, err |-> <<type, msg>>]

RECURSIVE a2b_base64(_, _, _, _, _, _)
a2b_base64(s, i, quad_pos, leftchar, pads, out) ==
  IF i > Len(s)
  THEN IF quad_pos # 0
       THEN IF quad_pos = 1
            THEN Raise("binascii.Error",
                       "Invalid base64-encoded string: number of data characters cannot be 1 more than a multiple of 4")
            ELSE Raise("binascii.Error", "Incorrect padding")
       ELSE Ok(out)
  ELSE LET c == s[i] IN
       IF c = B64_PAD
       THEN IF quad_pos >= 2 /\ quad_pos + pads + 1 >= 4
            THEN Ok(out)
            ELSE a2b_base64(s, i + 1, quad_pos, leftchar,
                            IF quad_pos >= 2 THEN pads + 1 ELSE pads, out)
       ELSE IF c \notin DOMAIN B64Table
       THEN a2b_base64(s, i + 1, quad_pos, leftchar, pads, out)
       ELSE LET v == B64Table[c] IN
            CASE quad_pos = 0 -> a2b_base64(s, i + 1, 1, v, 0, out)
              [] quad_pos = 1 ->
                   a2b_base64(s, i + 1, 2, v % 16, 0,
                              Append(out, (leftchar * 4 + v \div 16) % 256))
              [] quad_pos = 2 ->
                   a2b_base64(s, i + 1, 3, v % 4, 0,
                              Append(out, (leftchar * 16 + v \div 4) % 256))
              [] OTHER ->
                   a2b_base64(s, i + 1, 0, 0, 0,
                              Append(out, (leftchar * 64 + v) % 256))

b64decode(s) ==
  IF \E i \in 1..Len(s) : s[i] \notin AsciiChars
  THEN Raise("ValueError", "string argument should contain only ASCII characters")
  ELSE a2b_base64(s, 1, 0, 0, 0, <<>>)

\* np.frombuffer(audio_bytes, dtype=np.int16): little-endian signed 16 bit.
Int16At(b, k) ==
  LET u == b[2 * k - 1] + 256 * b[2 * k]
  IN  IF u >= 32768 THEN u - 65536 ELSE u

frombuffer(b) ==
  IF Len(b) % 2 # 0
  THEN Raise("ValueError", "buffer size must be a multiple of element size")
  ELSE Ok([k \in 1..(Len(b) \div 2) |-> Int16At(b, k)])

\* str.strip(): leading and trailing whitespace removed.
RECURSIVE lstrip(_)
lstrip(s) == IF s # <<>> /\ Head(s) = " " THEN lstrip(Tail(s)) ELSE s

RECURSIVE rstrip(_)
rstrip(s) ==
  IF s # <<>> /\ s[Len(s)] = " " THEN rstrip(SubSeq(s, 1, Len(s) - 1)) ELSE s

\* Mutant: only leading whitespace is removed.
strip_leading(s) == lstrip(s)

strip(s) == rstrip(lstrip(s))

-----------------------------------------------------------------------------
(* Requests.                                                               *)

Endpoints == {"health", "transcribe", "pcm"}

\* The JSON values of a request body, and a field the body does not have.
Absent == [json |-> "absent"]
JInt(v) == [json |-> "int", val |-> v]
JStr(v) == [json |-> "str", val |-> v]
JArray == [json |-> "array"]

\* What the model transcribes an input to, before strip().
Texts == {<<>>, <<" ">>, <<"a">>, <<" ", "a", " ">>}

\* The library call that raises on an input ("none": no call does).
UploadFaults == {"read", "sf_read", "resample", "features", "generate", "batch_decode"}
PcmFaults == {"resample", "features", "generate", "batch_decode"}

\* Frames of the modelled audio files.
Frames == 4

File(channels, rate, frames) ==
  [channels |-> channels, rate |-> rate, frames |-> frames]

\* POST /transcribe: the multipart field `file` (or none), and the libraries'
\* reaction to its content.
Uploads ==
  {[present |-> FALSE, file |-> File(1, TARGET_SR, 0), fault |-> "none", text |-> <<>>]}
  \cup {[present |-> TRUE, file |-> File(c, r, Frames), fault |-> "none", text |-> x] :
          c \in {1, 2}, r \in {TARGET_SR, 44100}, x \in Texts}
  \cup {[present |-> TRUE, file |-> File(2, 44100, Frames), fault |-> f,
         text |-> <<"a">>] :
          f \in UploadFaults}
  \cup {[present |-> TRUE, file |-> File(1, r, 0), fault |-> "none", text |-> <<>>] :
          r \in {TARGET_SR, 44100}}

\* The audio_data strings of the modelled bodies, as character sequences:
\* "", "AAA=", "///=", "AAAA", "AA==", "AAA", "A", "AAA$=", a non-ASCII
\* string.
AudioDataInputs ==
  { <<>>, <<"A", "A", "A", "=">>, <<"/", "/", "/", "=">>,
    <<"A", "A", "A", "A">>, <<"A", "A", "=", "=">>, <<"A", "A", "A">>, <<"A">>,
    <<"A", "A", "A", "$", "=">>, <<"U+00E9">> }

\* The sample_rate values of the modelled bodies.
SampleRates == {Absent} \cup {JInt(v) : v \in {TARGET_SR, 8000, 0, -8000}}

\* "AAA=": one sample of 16 bit.
OneSample == JStr(<<"A", "A", "A", "=">>)

\* POST /transcribe/pcm: the JSON body, and the libraries' reaction to it.
PcmBodies ==
  {[audio_data |-> Absent, sample_rate |-> Absent, fault |-> "none", text |-> <<>>],
   [audio_data |-> OneSample, sample_rate |-> JArray,
    fault |-> "none", text |-> <<>>]}
  \cup {[audio_data |-> JStr(a), sample_rate |-> r, fault |-> "none",
         text |-> <<"a">>] : a \in AudioDataInputs, r \in SampleRates}
  \cup {[audio_data |-> OneSample, sample_rate |-> r, fault |-> f,
         text |-> <<"a">>] : r \in {Absent, JInt(8000)}, f \in PcmFaults}
  \cup {[audio_data |-> OneSample, sample_rate |-> r, fault |-> "none",
         text |-> x] : r \in {Absent, JInt(8000)}, x \in Texts}

HealthRequests == {[fault |-> "none"]}

Payloads(ep) ==
  CASE ep = "transcribe" -> Uploads
    [] ep = "pcm" -> PcmBodies
    [] OTHER -> HealthRequests

NoAudio == [n |-> 0, channels |-> 0, rate |-> 0]

\* A request as the framework hands it to its handler.
NewTask(ep, p) ==
  [endpoint |-> ep, payload |-> p,
   pc |-> IF ep = "health" THEN "respond" ELSE "validate",
   request |-> <<>>, seen |-> <<>>, audio_bytes |-> <<>>, samples |-> <<>>,
   audio |-> NoAudio, sampling_rate |-> 0, transcription |-> <<>>,
   steps |-> <<>>, status |-> 0, body |-> <<>>]

IsRequest(t) == t.endpoint \in Endpoints

Did(t, step) == [t EXCEPT !.steps = Append(@, step)]

Goto(t, pc) == [t EXCEPT !.pc = pc]

Respond(t, status, body) ==
  [t EXCEPT !.pc = "done", !.status = status, !.body = body]

\* raise HTTPException(status_code=..., detail=...)
HTTPException(t, status_code, detail) ==
  Respond(t, status_code, [detail |-> detail])

-----------------------------------------------------------------------------
(* The statements of the handlers. Each takes the request at its program   *)
(* counter to the request after the statement, or raises.                  *)

\* FastAPI's parsing of the declared parameters, before the handler is
\* called: `file: UploadFile = File(...)` and `request:
\* TranscribeBase64Request` (audio_data: str, sample_rate: int = 16000).
\* A request that does not fit is answered 422 and the handler never runs.
Validate(t) ==
  IF t.endpoint = "transcribe"
  THEN IF ~t.payload.present
       THEN HTTPException(t, 422, <<"RequestValidationError", "file">>)
       ELSE Goto([t EXCEPT !.request = t.payload.file], "check")
  ELSE IF t.payload.audio_data.json # "str"
       THEN HTTPException(t, 422, <<"RequestValidationError", "audio_data">>)
       ELSE IF t.payload.sample_rate.json \notin {"int", "absent"}
       THEN HTTPException(t, 422, <<"RequestValidationError", "sample_rate">>)
       ELSE Goto([t EXCEPT !.request =
                    [audio_data |-> t.payload.audio_data.val,
                     sample_rate |-> IF t.payload.sample_rate.json = "absent"
                                     THEN TARGET_SR
                                     ELSE t.payload.sample_rate.val]],
                 "check")

\* Mutant: the check forgets the model handle.
UnloadedProcessorOnly(m, p) == p = None

\* if model is None or processor is None
Unloaded(m, p) == m = None \/ p = None

\* if model is None or processor is None:
\*     raise HTTPException(status_code=503, detail="Model not loaded yet")
CheckLoaded(t) ==
  LET u == [t EXCEPT !.seen = <<processor, model>>]
  IN  IF Unloaded(model, processor)
      THEN HTTPException(Did(u, "check"), 503, "Model not loaded yet")
      ELSE Goto(Did(u, "check"),
                IF t.endpoint = "transcribe" THEN "read" ELSE "b64decode")

\* Mutant: the upload is kept in a buffer all requests share, which a
\* request suspended meanwhile has overwritten.
UploadOfShared(t) == IF waiting # <<>> THEN waiting[1].request ELSE t.request

\* The upload `file.read()` returns: the request's own.
UploadOf(t) == t.request

\* audio_bytes = await file.read()
FileRead(t) ==
  IF t.payload.fault = "read"
  THEN Raise("OSError", "read failed")
  ELSE Ok(Goto(Did([t EXCEPT !.audio_bytes = UploadOf(t)], "read"), "sf_read"))

\* audio_data, sample_rate = sf.read(io.BytesIO(audio_bytes))
SfRead(t) ==
  IF t.payload.fault = "sf_read"
  THEN Raise("LibsndfileError", "Format not recognised")
  ELSE Ok(Goto(Did([t EXCEPT !.audio = [n |-> t.audio_bytes.frames,
                                        channels |-> t.audio_bytes.channels,
                                        rate |-> t.audio_bytes.rate]],
                   "decode"),
               "mono"))

\* Mutant: only audio of more than two channels is mixed down.
IsMultiChannelOverTwo(a) == a.channels > 2

\* if len(audio_data.shape) > 1
IsMultiChannel(a) == a.channels > 1

\* if len(audio_data.shape) > 1: audio_data = audio_data.mean(axis=1)
ToMono(t) ==
  IF IsMultiChannel(t.audio)
  THEN Ok(Goto(Did([t EXCEPT !.audio.channels = 1], "mono"), "resample"))
  ELSE Ok(Goto(t, "resample"))

\* Mutant: only higher rates are resampled.
NeedsResampleDownOnly(sample_rate) == sample_rate > TARGET_SR

\* if sample_rate != 16000
NeedsResample(sample_rate) == sample_rate # TARGET_SR

\* librosa.resample(y, orig_sr=..., target_sr=16000): the number of samples
\* it returns, ceil(n * target_sr / orig_sr).
ResampledLength(n, orig_sr) == (n * TARGET_SR + orig_sr - 1) \div orig_sr

\* if sample_rate != 16000:
\*     import librosa
\*     audio = librosa.resample(audio, orig_sr=sample_rate, target_sr=16000)
\* librosa raises on a rate that is not positive and on a signal too short
\* to resample.
Resample(t, sample_rate) ==
  IF ~NeedsResample(sample_rate)
  THEN Ok(Goto(t, "features"))
  ELSE IF t.payload.fault = "resample"
  THEN Raise("ParameterError", "resample failed")
  ELSE IF sample_rate <= 0
  THEN Raise("ParameterError", "invalid sample rate")
  ELSE IF ResampledLength(t.audio.n, sample_rate) < 1
  THEN Raise("ParameterError", "Input signal is too small to resample")
  ELSE Ok(Goto(Did([t EXCEPT !.audio.n = ResampledLength(@, sample_rate),
                             !.audio.rate = TARGET_SR],
                   "resample"),
               "features"))

\* input_features = processor(audio, sampling_rate=16000,
\*     return_tensors="pt").input_features.to(DEVICE, dtype=TORCH_DTYPE)
Features(t) ==
  IF t.payload.fault = "features"
  THEN Raise("ValueError", "feature extraction failed")
  ELSE Ok(Goto(Did([t EXCEPT !.sampling_rate = TARGET_SR], "features"),
               "generate"))

\* with torch.no_grad(): predicted_ids = model.generate(input_features)
Generate(t) ==
  IF t.payload.fault = "generate"
  THEN Raise("RuntimeError", "inference failed")
  ELSE Ok(Goto(Did(t, "generate"), "batch_decode"))

\* transcription = processor.batch_decode(predicted_ids,
\*     skip_special_tokens=True)[0]
BatchDecode(t) ==
  IF t.payload.fault = "batch_decode"
  THEN Raise("IndexError", "decoding failed")
  ELSE Ok(Goto(Did([t EXCEPT !.transcription = t.payload.text], "batch_decode"),
               "respond"))

\* class TranscriptionResponse: text: str; language: str = "is"
TranscriptionResponse(text) == [text |-> text, language |-> "is"]

\* return TranscriptionResponse(text=transcription.strip())
Return(t) ==
  Ok(Respond(Did(Did(t, "strip"), "respond"), 200,
             TranscriptionResponse(strip(t.transcription))))

\* audio_bytes = base64.b64decode(request.audio_data)
B64Decode(t) ==
  LET r == b64decode(t.request.audio_data)
  IN  IF r.ok
      THEN Ok(Goto(Did([t EXCEPT !.audio_bytes = r.val], "b64decode"), "frombuffer"))
      ELSE r

\* audio_int16 = np.frombuffer(audio_bytes, dtype=np.int16)
FromBuffer(t) ==
  LET r == frombuffer(t.audio_bytes)
  IN  IF r.ok
      THEN Ok(Goto(Did([t EXCEPT !.samples = r.val], "frombuffer"), "to_float"))
      ELSE r

\* audio_float = audio_int16.astype(np.float32) / 32768.0: sample k is the
\* fraction samples[k] / PCM_SCALE; one channel, at the rate the request
\* states.
ToFloat(t) ==
  Ok(Goto(Did([t EXCEPT !.samples = [k \in 1..Len(@) |-> <<@[k], PCM_SCALE>>],
                        !.audio = [n |-> Len(t.samples), channels |-> 1,
                                   rate |-> t.request.sample_rate]],
              "to_float"),
          "resample"))

\* Mutant: only ValueError is caught; what else is raised leaves the handler
\* and the framework answers its plain 500.
ExceptValueError(t, r) ==
  IF r.ok THEN r.val
  ELSE IF r.err[1] = "ValueError" THEN HTTPException(t, 500, r.err)
  ELSE Respond(t, 500, [text |-> "Internal Server Error"])

\* except Exception as e: raise HTTPException(status_code=500, detail=str(e))
Except(t, r) == IF r.ok THEN r.val ELSE HTTPException(t, 500, r.err)

\* The try block of transcribe_audio, one statement at a time.
TranscribeAudioTry(t) ==
  CASE t.pc = "read" -> FileRead(t)
    [] t.pc = "sf_read" -> SfRead(t)
    [] t.pc = "mono" -> ToMono(t)
    [] t.pc = "resample" -> Resample(t, t.audio.rate)
    [] t.pc = "features" -> Features(t)
    [] t.pc = "generate" -> Generate(t)
    [] t.pc = "batch_decode" -> BatchDecode(t)
    [] OTHER -> Return(t)

\* The try block of transcribe_pcm, one statement at a time.
TranscribePcmTry(t) ==
  CASE t.pc = "b64decode" -> B64Decode(t)
    [] t.pc = "frombuffer" -> FromBuffer(t)
    [] t.pc = "to_float" -> ToFloat(t)
    [] t.pc = "resample" -> Resample(t, t.request.sample_rate)
    [] t.pc = "features" -> Features(t)
    [] t.pc = "generate" -> Generate(t)
    [] t.pc = "batch_decode" -> BatchDecode(t)
    [] OTHER -> Return(t)

\* Mutant: health answers 503 until the model is loaded.
HealthResponseWhenLoaded(t) ==
  IF model = None \/ processor = None
  THEN HTTPException(Did(t, "respond"), 503, "Model not loaded yet")
  ELSE Respond(Did(t, "respond"), 200,
               [status |-> "healthy", model |-> MODEL_NAME, device |-> DEVICE,
                cuda_available |-> cuda_available])

\* GET /health
HealthResponse(t) ==
  Respond(Did(t, "respond"), 200,
          [status |-> "healthy", model |-> MODEL_NAME, device |-> DEVICE,
           cuda_available |-> cuda_available])

\* One statement of the handler of request t.
Step(t) ==
  CASE t.endpoint = "health" -> HealthResponse(t)
    [] t.pc = "validate" -> Validate(t)
    [] t.pc = "check" -> CheckLoaded(t)
    [] t.endpoint = "transcribe" -> Except(t, TranscribeAudioTry(t))
    [] OTHER -> Except(t, TranscribePcmTry(t))

-----------------------------------------------------------------------------
(* The event loop.                                                         *)

\* Mutant: inference is awaited too.
YieldPointsWithInference(ep) ==
  IF ep = "transcribe" THEN {"read", "generate"} ELSE {}

\* The statements at which a handler awaits, and so gives up the loop:
\* `await file.read()` in transcribe_audio, none in transcribe_pcm and
\* health_check.
YieldPoints(ep) == IF ep = "transcribe" THEN {"read"} ELSE {}

\* Mutant: the model is loaded before the processor.
StartupStatementsModelFirst == <<"model", "processor", "config">>

\* The statements of load_model that assign or configure, in order:
\* processor = ...; model = ...; model.config.forced_decoder_ids = None
StartupStatements == <<"processor", "model", "config">>

Remove(q, i) == SubSeq(q, 1, i - 1) \o SubSeq(q, i + 1, Len(q))

Init ==
  /\ processor = None
  /\ model = None
  /\ cuda_available \in BOOLEAN
  /\ DEVICE = DeviceFor(cuda_available)
  /\ started = FALSE
  /\ cur = Idle
  /\ waiting = <<>>

\* The server fires the startup event: load_model begins. It has no await.
StartLoad ==
  /\ cur = Idle
  /\ ~started
  /\ started' = TRUE
  /\ cur' = [endpoint |-> "load_model", pc |-> 1]
  /\ UNCHANGED <<processor, model, cuda_available, DEVICE, waiting>>

\* One statement of load_model: it assigns its global, or raises and the
\* startup ends there.
load_model ==
  /\ cur.endpoint = "load_model"
  /\ UNCHANGED <<cuda_available, DEVICE, started, waiting>>
  /\ \/ /\ cur' = Idle
        /\ UNCHANGED <<processor, model>>
     \/ /\ processor' = IF StartupStatements[cur.pc] = "processor"
                        THEN Loaded ELSE processor
        /\ model' = IF StartupStatements[cur.pc] = "model" THEN Loaded ELSE model
        /\ cur' = IF cur.pc = Len(StartupStatements)
                  THEN Idle
                  ELSE [cur EXCEPT !.pc = @ + 1]

\* A request arrives and its coroutine starts.
Arrive ==
  /\ cur = Idle
  /\ Len(waiting) < MaxRequests
  /\ \E ep \in Endpoints : \E p \in Payloads(ep) : cur' = NewTask(ep, p)
  /\ UNCHANGED <<processor, model, cuda_available, DEVICE, started, waiting>>

\* The running coroutine executes its next statement; at an await it is
\* suspended and the loop is free.
Run(ep) ==
  /\ cur.endpoint = ep
  /\ cur.pc # "done"
  /\ LET t == Step(cur)
     IN  IF t.pc \in YieldPoints(ep)
         THEN cur' = Idle /\ waiting' = Append(waiting, t)
         ELSE cur' = t /\ UNCHANGED waiting
  /\ UNCHANGED <<processor, model, cuda_available, DEVICE, started>>

health_check == Run("health")

transcribe_audio == Run("transcribe")

transcribe_pcm == Run("pcm")

\* An awaited result is there: the loop resumes the coroutine.
Resume ==
  /\ cur = Idle
  /\ \E i \in 1..Len(waiting) :
       /\ cur' = waiting[i]
       /\ waiting' = Remove(waiting, i)
  /\ UNCHANGED <<processor, model, cuda_available, DEVICE, started>>

\* The handler has returned or raised: the response is sent and the request,
\* with its buffers, is gone.
SendResponse ==
  /\ IsRequest(cur)
  /\ cur.pc = "done"
  /\ cur' = Idle
  /\ UNCHANGED <<processor, model, cuda_available, DEVICE, started, waiting>>

Next ==
  \/ StartLoad
  \/ load_model
  \/ Arrive
  \/ health_check
  \/ transcribe_audio
  \/ transcribe_pcm
  \/ Resume
  \/ SendResponse

Spec == Init /\ [][Next]_vars

-----------------------------------------------------------------------------
(* Properties.                                                             *)

\* The requests alive in a state.
Tasks ==
  (IF IsRequest(cur) THEN {cur} ELSE {}) \cup {waiting[i] : i \in 1..Len(waiting)}

Transcriptions == {t \in Tasks : t.endpoint \in {"transcribe", "pcm"}}

Answered == {t \in Tasks : t.pc = "done"}

InSteps(t, step) == \E i \in 1..Len(t.steps) : t.steps[i] = step

\* The handler's check has run, and found both handles set.
PassedCheck(t) == t.seen = <<Loaded, Loaded>>

\* C1: a request that reaches either transcription handler while the model
\* or the processor handle is unset is answered 503 (not 500), and nothing
\* of it is read, decoded or run through the model.
C1_Unloaded503 ==
  \A t \in Transcriptions :
    (t.seen # <<>> /\ (t.seen[1] = None \/ t.seen[2] = None)) =>
      /\ t.pc = "done"
      /\ t.status = 503
      /\ t.body = [detail |-> "Model not loaded yet"]
      /\ t.steps = <<"check">>
      /\ t.audio_bytes = <<>> /\ t.audio = NoAudio /\ t.sampling_rate = 0

\* C1 happens: a request was answered 503 in the partially loaded state,
\* the processor set and the model not.
C1_Witness ==
  /\ processor = Loaded /\ model = None
  /\ IsRequest(cur) /\ cur.endpoint = "pcm" /\ cur.status = 503

FitsDeclaration(t) ==
  IF t.endpoint = "transcribe"
  THEN t.payload.present
  ELSE t.payload.audio_data.json = "str"
       /\ t.payload.sample_rate.json \in {"int", "absent"}

RECURSIVE PadCount(_)
PadCount(s) ==
  IF s # <<>> /\ s[Len(s)] = B64_PAD THEN 1 + PadCount(SubSeq(s, 1, Len(s) - 1)) ELSE 0

ValidBase64(s) ==
  /\ Len(s) % 4 = 0
  /\ PadCount(s) <= 2
  /\ \A i \in 1..(Len(s) - PadCount(s)) : s[i] \in DOMAIN B64Table

\* The bytes a strictly valid base64 string of n characters encodes.
EncodedBytes(s) == (Len(s) \div 4) * 3 - PadCount(s)

\* The payload is malformed: audio_data is no valid base64 or encodes an
\* odd number of bytes; the upload is no decodable audio file.
Malformed(t) ==
  IF t.endpoint = "transcribe"
  THEN t.payload.fault = "sf_read"
  ELSE \/ ~ValidBase64(t.request.audio_data)
       \/ EncodedBytes(t.request.audio_data) % 2 = 1

\* C3: with the model loaded, a request whose payload is malformed is
\* answered 500 and never reaches inference.
C3_MalformedIs500 ==
  \A t \in Transcriptions \cap Answered :
    (PassedCheck(t) /\ Malformed(t)) =>
      t.status = 500 /\ ~InSteps(t, "generate")

\* The rate of the request's audio as it came in.
StatedRate(t) ==
  IF t.endpoint = "transcribe" THEN t.request.rate ELSE t.request.sample_rate

\* C4: audio reaches feature extraction, and so inference, at 16000 Hz and
\* the extractor is told 16000: it was resampled exactly when it came in at
\* another rate.
C4_ResampledTo16k ==
  \A t \in Transcriptions :
    /\ (t.pc \in {"features", "generate", "batch_decode", "respond"}
          \/ InSteps(t, "features")) =>
         /\ t.audio.rate = 16000
         /\ InSteps(t, "resample") = (StatedRate(t) # 16000)
    /\ InSteps(t, "features") => t.sampling_rate = 16000
    /\ InSteps(t, "generate") => InSteps(t, "features")

\* C4 happens: a PCM request stating 8000 Hz was resampled and transcribed.
C4_Witness ==
  /\ IsRequest(cur) /\ cur.endpoint = "pcm" /\ cur.status = 200
  /\ cur.request.sample_rate = 8000
  /\ InSteps(cur, "resample")

\* C5: only load_model assigns the handles, the processor before the
\* model; a handle that is set stays set, and once both are set neither
\* changes; no request changes either.
C5_HandlesReadOnly ==
  [][/\ (processor' # processor \/ model' # model) => cur.endpoint = "load_model"
     /\ (model = None /\ model' # None) => processor # None
     /\ processor # None => processor' = processor
     /\ model # None => model' = model]_vars

\* C5 happens: with both handles loaded a request failed and was answered.
C5_Witness ==
  /\ processor = Loaded /\ model = Loaded
  /\ IsRequest(cur) /\ cur.pc = "done" /\ cur.status = 500

\* C6: GET /health answers 200 in every state, with exactly the fields
\* status, model, device and cuda_available: status "healthy", the
\* configured model name, and device "cuda" exactly when cuda_available.
C6_HealthReport ==
  \A t \in Answered :
    t.endpoint = "health" =>
      /\ t.status = 200
      /\ DOMAIN t.body = {"status", "model", "device", "cuda_available"}
      /\ t.body.status = "healthy"
      /\ t.body.model = MODEL_NAME
      /\ t.body.cuda_available = cuda_available
      /\ t.body.device \in {"cuda", "cpu"}
      /\ (t.body.device = "cuda") = (t.body.cuda_available = TRUE)

\* C6 happens: health was answered while the model was not loaded.
C6_Witness ==
  /\ model = None
  /\ IsRequest(cur) /\ cur.endpoint = "health" /\ cur.pc = "done"

\* C7 as stated: a request that completes is answered 200 with a text that
\* is not empty.
C7_TextNonEmpty ==
  \A t \in Transcriptions \cap Answered :
    t.status = 200 => t.body.text # <<>>

Spaces(n) == [i \in 1..n |-> " "]

\* x is s without its leading and trailing whitespace.
IsStripped(x, s) ==
  /\ x # <<>> => (x[1] # " " /\ x[Len(x)] # " ")
  /\ \E i \in 0..Len(s) : \E j \in 0..Len(s) : s = Spaces(i) \o x \o Spaces(j)

\* C7 amended: a request that completes without an exception is answered
\* 200 with exactly {text, language}, language "is" and text the decoded
\* transcription without leading and trailing whitespace, which may be
\* empty.
C7_StrippedText ==
  \A t \in Transcriptions \cap Answered :
    /\ t.status = 200 =>
         /\ DOMAIN t.body = {"text", "language"}
         /\ t.body.language = "is"
         /\ IsStripped(t.body.text, t.payload.text)
    /\ (FitsDeclaration(t) /\ PassedCheck(t) /\ t.status # 500) => t.status = 200

\* C7 happens: a transcription with whitespace around it was answered.
C7_Witness ==
  /\ IsRequest(cur) /\ cur.endpoint = "transcribe" /\ cur.status = 200
  /\ cur.payload.text = <<" ", "a", " ">>
  /\ cur.body.text = <<"a">>

Optional(cond, step) == IF cond THEN <<step>> ELSE <<>>

Tail5 == <<"features", "generate", "batch_decode", "strip", "respond">>

\* The steps of a successful request, in order.
ExpectedSteps(t) ==
  IF t.endpoint = "transcribe"
  THEN <<"check", "read", "decode">>
       \o Optional(t.request.channels > 1, "mono")
       \o Optional(t.request.rate # 16000, "resample")
       \o Tail5
  ELSE <<"check", "b64decode", "frombuffer", "to_float">>
       \o Optional(t.request.sample_rate # 16000, "resample")
       \o Tail5

\* C8: a successful request ran its steps once each in the fixed order
\* (mono-mixing only for multi-channel uploads and never for PCM,
\* resampling only for rates other than 16000), and inference is given
\* single-channel audio.
C8_StepOrder ==
  \A t \in Transcriptions :
    /\ t.status = 200 => t.steps = ExpectedSteps(t)
    /\ (t.pc = "generate" \/ InSteps(t, "generate")) => t.audio.channels = 1
    /\ t.endpoint = "pcm" => ~InSteps(t, "mono")

\* C8 happens: a stereo upload at 44100 Hz went through every step.
C8_Witness ==
  /\ IsRequest(cur) /\ cur.endpoint = "transcribe" /\ cur.status = 200
  /\ cur.request.channels = 2 /\ cur.request.rate = 44100
  /\ InSteps(cur, "mono") /\ InSteps(cur, "resample")

\* Whether handling the payload raises, told from the payload alone.
Raises(ep, p) ==
  IF ep = "transcribe"
  THEN \/ p.fault \in {"read", "sf_read", "features", "generate", "batch_decode"}
       \/ /\ p.file.rate # 16000
          /\ \/ p.fault = "resample"
             \/ p.file.rate <= 0
             \/ ResampledLength(p.file.frames, p.file.rate) < 1
  ELSE LET d == b64decode(p.audio_data.val)
           sr == IF p.sample_rate.json = "absent" THEN 16000 ELSE p.sample_rate.val
       IN  \/ ~d.ok
           \/ Len(d.val) % 2 = 1
           \/ p.fault \in {"features", "generate", "batch_decode"}
           \/ /\ sr # 16000
              /\ \/ p.fault = "resample"
                 \/ sr <= 0
                 \/ ResampledLength(Len(d.val) \div 2, sr) < 1

\* The answer to a request as a function of its own payload and of the
\* handles its handler found: the status, and the text of a 200.
AnswerFor(ep, p, loaded) ==
  IF ep = "health" THEN <<200, <<>>>>
  ELSE IF ep = "transcribe" /\ ~p.present THEN <<422, <<>>>>
  ELSE IF ep = "pcm" /\ (p.audio_data.json # "str"
                          \/ p.sample_rate.json \notin {"int", "absent"})
  THEN <<422, <<>>>>
  ELSE IF ~loaded THEN <<503, <<>>>>
  ELSE IF Raises(ep, p) THEN <<500, <<>>>>
  ELSE <<200, strip(p.text)>>

\* C9: whatever requests came before or are suspended meanwhile, the answer
\* to a request is a function of its own payload and of the handles alone.
C9_NoInterference ==
  \A t \in Answered :
    <<t.status, IF t.status = 200 /\ t.endpoint # "health" THEN t.body.text ELSE <<>>>>
      = AnswerFor(t.endpoint, t.payload, PassedCheck(t))

\* C9 happens: an upload was transcribed while a request that arrived
\* before it, with another upload, is still suspended.
C9_Witness ==
  /\ IsRequest(cur) /\ cur.endpoint = "transcribe" /\ cur.status = 200
  /\ waiting # <<>> /\ waiting[1].payload # cur.payload

InInference(t) == t.pc = "generate"

\* C10: a handler is suspended only at the upload read of /transcribe,
\* after the 503 check and before decoding; so at most one request is in
\* inference, none is answered while one is, and a request past the check
\* finds both handles set.
C10_SingleLoop ==
  /\ \A i \in 1..Len(waiting) :
       /\ waiting[i].endpoint = "transcribe"
       /\ waiting[i].pc = "read"
       /\ waiting[i].steps = <<"check">>
  /\ Cardinality({i \in 1..Len(waiting) : InInference(waiting[i])})
       + (IF IsRequest(cur) /\ InInference(cur) THEN 1 ELSE 0) <= 1
  /\ (IsRequest(cur) /\ cur.pc = "done") =>
       \A i \in 1..Len(waiting) : ~InInference(waiting[i])
  /\ \A t \in Transcriptions :
       (PassedCheck(t) /\ t.pc # "done") => (processor # None /\ model # None)

\* C10 happens: inference runs for a resumed upload while other requests
\* are suspended.
C10_Witness ==
  /\ IsRequest(cur) /\ cur.endpoint = "transcribe" /\ InInference(cur)
  /\ Len(waiting) >= 1

=============================================================================
